---- MODULE Spec2Model ----
(***************************************************************************)
(* API key rotation and retry wrapper of services/geminiService.ts:        *)
(* getNextApiKey (the key pool and its rotation cursor keyIndex) and       *)
(* executeWithRetry (the bounded retry loop around one Gemini call), run   *)
(* by several feature calls that are in flight at the same time on the     *)
(* single-threaded event loop.                                             *)
(*                                                                         *)
(* Strings are sequences of one-character strings; a word of a message     *)
(* that no test of the code looks into is kept as one symbol.              *)
(***************************************************************************)
EXTENDS Integers, Sequences, FiniteSets, TLC

\* ---------------------------------------------------------------- bounds
\* largest number of keys written in process.env.API_KEY
MaxKeys == 6
\* logical calls of executeWithRetry made by the feature modules; each may
\* start at any time, before, while or after the others run
NumCalls == 2
\* longest value of API_KEY among the values of every spelling
MaxLen == 5

\* quiz questions generated and answers given in one run of QuizBattle
MaxQuestions == 3
MaxAnswers == 4

\* times the cam tab is opened and frames handed to analyzeFrame
MaxMounts == 3
MaxAnalyses == 4

\* session ids handed out by startNewSession and requests made by the
\* session-bound components
MaxSessions == 3
MaxRequests == 3

Calls == 1..NumCalls

\* ------------------------------------------------------- JavaScript strings
Min(a, b) == IF a < b THEN a ELSE b
Max(a, b) == IF a > b THEN a ELSE b

\* String.prototype.substring(a, b): both ends clamped to 0..length, swapped
\* when a > b
Substring(s, a, b) ==
  LET ca == Max(0, Min(a, Len(s)))
      cb == Max(0, Min(b, Len(s)))
      lo == Min(ca, cb)
      hi == Max(ca, cb)
  IN  [k \in 1..(hi - lo) |-> s[lo + k]]

\* String.prototype.includes(pat)
Includes(s, pat) ==
  \E k \in 0..(Len(s) - Len(pat)) :
     \A j \in 1..Len(pat) : s[k + j] = pat[j]

WhiteSpace == {" ", "\t"}

\* String.prototype.trim()
Trim(s) ==
  LET nonWs == {k \in 1..Len(s) : s[k] \notin WhiteSpace}
  IN  IF nonWs = {} THEN <<>>
      ELSE LET lo == CHOOSE k \in nonWs : \A m \in nonWs : k <= m
               hi == CHOOSE k \in nonWs : \A m \in nonWs : k >= m
           IN  [k \in 1..(hi - lo + 1) |-> s[lo + k - 1]]

\* String.prototype.split(','): "" gives one empty part
SplitComma(s) ==
  LET RECURSIVE go(_, _, _)
      go(k, cur, acc) ==
        IF k > Len(s) THEN Append(acc, cur)
        ELSE IF s[k] = "," THEN go(k + 1, <<>>, Append(acc, cur))
        ELSE go(k + 1, Append(cur, s[k]), acc)
  IN  go(1, <<>>, <<>>)

\* parts.map(k => k.trim())
TrimAll(parts) == [k \in 1..Len(parts) |-> Trim(parts[k])]

\* a string is truthy iff it is not empty
Truthy(s) == s # <<>>

\* ------------------------------------------------------------ environment
Letters == <<"A", "B", "C", "D", "E", "F", "G", "H", "I", "J">>

\* "A,B,C,..." with n keys
RECURSIVE PlainConfig(_)
PlainConfig(n) ==
  IF n = 0 THEN <<>>
  ELSE IF n = 1 THEN <<Letters[1]>>
  ELSE PlainConfig(n - 1) \o <<",", Letters[n]>>

\* values of process.env.API_KEY: absent (no such field), empty, plain
\* lists of distinct keys, and lists with blanks and empty parts
Environments ==
  {[x \in {} |-> <<>>]}
  \cup {[API_KEY |-> PlainConfig(n)] : n \in 0..MaxKeys}
  \cup {[API_KEY |-> <<" ", ",", " ">>],
        [API_KEY |-> <<" ", "A", " ", ",", ",", "B", "\t", ",">>]}

\* every value of API_KEY of at most MaxLen characters over two key
\* characters, the comma and the blank, and the absent value
ConfigAlphabet == {"A", "B", ",", " "}

ConfigEnvironments ==
  {[x \in {} |-> <<>>]}
  \cup {[API_KEY |-> s] : s \in UNION {[1..k -> ConfigAlphabet] : k \in 0..MaxLen}}

VARIABLES
  process_env,   \* process.env, fixed for the life of the process
  keyIndex,      \* module-level rotation cursor
  call,          \* per logical call: the frame of executeWithRetry
  issued,        \* one entry per key handed out by getNextApiKey, in order
  request,       \* per logical call: the feature operation that made it
  quiz,          \* QuizBattle: its state hooks, timeouts and pending requests
  cam,           \* MathCam: its state hooks and the analyzeFrame requests pending
  app            \* App: sessions, history, local storage and the requests pending

\* the state of the callers of executeWithRetry
clientVars == <<request, quiz, cam, app>>

\* the state of getNextApiKey and executeWithRetry
retryVars == <<process_env, keyIndex, call, issued>>

vars == <<process_env, keyIndex, call, issued, request, quiz, cam, app>>

\* process.env.API_KEY || ""
KeysRaw ==
  IF "API_KEY" \in DOMAIN process_env /\ Truthy(process_env.API_KEY)
  THEN process_env.API_KEY ELSE <<>>

\* slip: the parts filtered by their trimmed form but kept untrimmed
PoolKeysUntrimmed == SelectSeq(SplitComma(KeysRaw), LAMBDA k : Truthy(Trim(k)))

\* keys of getNextApiKey: split, trim each part, keep the non-empty ones
\* (the split is taken once, as the method chain takes it)
PoolKeys ==
  LET Keep(parts) == SelectSeq(TrimAll(parts), Truthy)
  IN  CHOOSE keys \in {Keep(parts) : parts \in {SplitComma(KeysRaw)}} : TRUE

\* slip: .filter(k => k), the parts kept by their untrimmed form
RetryKeysNoTrim == SelectSeq(SplitComma(KeysRaw), Truthy)

\* keys of executeWithRetry: split, keep the parts whose trim is non-empty
RetryKeys == SelectSeq(SplitComma(KeysRaw), LAMBDA k : Truthy(Trim(k)))


\* ------------------------------------------------------------ getNextApiKey
\* key.substring(0, 8) + '...' + key.substring(key.length - 4)
MaskKey(key) ==
  Substring(key, 0, 8) \o <<".", ".", ".">> \o Substring(key, Len(key) - 4, Len(key))

\* slip: the cursor advanced before the key is read
GetNextApiKeyAdvanceFirst(idx) ==
  LET keys == PoolKeys
      nxt == IF Len(keys) = 0 THEN idx ELSE (idx + 1) % Len(keys)
  IN  IF Len(keys) = 0
      THEN [threw |-> FALSE, key |-> <<>>, keyIndex |-> idx, log |-> <<>>]
      ELSE [threw |-> FALSE,
            key |-> keys[nxt + 1],
            keyIndex |-> nxt,
            log |-> <<[pos |-> nxt, of |-> Len(keys), key |-> keys[nxt + 1],
                       masked |-> MaskKey(keys[nxt + 1])]>>]

\* slip: the cursor advanced without the modulo
GetNextApiKeyNoWrap(idx) ==
  LET keys == PoolKeys
  IN  IF Len(keys) = 0
      THEN [threw |-> FALSE, key |-> <<>>, keyIndex |-> idx, log |-> <<>>]
      ELSE IF idx >= Len(keys)
      THEN [threw |-> TRUE, key |-> <<>>, keyIndex |-> idx, log |-> <<>>]
      ELSE [threw |-> FALSE,
            key |-> keys[idx + 1],
            keyIndex |-> idx + 1,
            log |-> <<[pos |-> idx, of |-> Len(keys), key |-> keys[idx + 1],
                       masked |-> MaskKey(keys[idx + 1])]>>]

\* slip: the assignment that advances the cursor left out
GetNextApiKeyNoAdvance(idx) ==
  LET keys == PoolKeys
  IN  IF Len(keys) = 0
      THEN [threw |-> FALSE, key |-> <<>>, keyIndex |-> idx, log |-> <<>>]
      ELSE IF idx >= Len(keys)
      THEN [threw |-> TRUE, key |-> <<>>, keyIndex |-> idx, log |-> <<>>]
      ELSE [threw |-> FALSE,
            key |-> keys[idx + 1],
            keyIndex |-> idx,
            log |-> <<[pos |-> idx, of |-> Len(keys), key |-> keys[idx + 1],
                       masked |-> MaskKey(keys[idx + 1])]>>]

\* One call of getNextApiKey with cursor idx: the key returned, the cursor
\* afterwards and the line logged.  No key configured: "" and nothing else.
\* keys[idx] past the end is undefined and key.substring raises.  const keys
\* is computed once for the call.
GetNextApiKey(idx) ==
  LET Issue(keys) ==
        IF Len(keys) = 0
        THEN [threw |-> FALSE, key |-> <<>>, keyIndex |-> idx, log |-> <<>>]
        ELSE IF idx >= Len(keys)
        THEN [threw |-> TRUE, key |-> <<>>, keyIndex |-> idx, log |-> <<>>]
        ELSE [threw |-> FALSE,
              key |-> keys[idx + 1],
              keyIndex |-> (idx + 1) % Len(keys),
              log |-> <<[pos |-> idx, of |-> Len(keys), key |-> keys[idx + 1],
                         masked |-> MaskKey(keys[idx + 1])]>>]
  IN  CHOOSE r \in {Issue(keys) : keys \in {PoolKeys}} : TRUE

\* ------------------------------------------------ what an operation raises
\* A raised value: js tells null and undefined from objects; an object may
\* have a message and a status; at is the invocation that created it (the
\* identity of the object), 0 for values that have none.
Digits429 == <<"4", "2", "9">>
Exhausted == <<"Resource", " ", "has", " ", "been", " ", "exhausted">>

ErrorShapes ==
  { [js |-> "Error", message |-> <<"Too", " ", "Many", " ", "Requests">>, status |-> 429],
    [js |-> "Error", message |-> Exhausted \o <<" ", "(", "check", " ", "quota", ")">>],
    [js |-> "Error", message |-> <<"Unexpected", " ", "token", " ", "at", " ", "position", " ", "1", "4", "2", "9">>],
    [js |-> "Error", message |-> <<"Quota", " ", "exceeded">>],
    [js |-> "Error", message |-> <<"Invalid", " ", "argument">>, status |-> 400],
    [js |-> "Error", message |-> <<"No", " ", "response", " ", "from", " ", "AI">>],
    [js |-> "Object"],
    [js |-> "null"],
    [js |-> "undefined"] }

Raise(shape, n) ==
  IF shape.js \in {"null", "undefined"}
  THEN [x \in DOMAIN shape \cup {"at"} |-> IF x = "at" THEN 0 ELSE shape[x]]
  ELSE [x \in DOMAIN shape \cup {"at"} |-> IF x = "at" THEN n ELSE shape[x]]

\* the TypeError of a property read on null or undefined
TypeErrorValue == [js |-> "TypeError", message |-> <<"Cannot", " ", "read", " ", "properties">>, at |-> 0]

\* let lastError: any;
Undefined == [js |-> "undefined", at |-> 0]

\* error.message?.includes('429') ||
\* error.message?.includes('Resource has been exhausted') ||
\* error.status === 429
\* reading .message of null or undefined raises a TypeError
Classify(error) ==
  IF error.js \in {"null", "undefined"} THEN "TYPE_ERROR"
  ELSE IF \/ ("message" \in DOMAIN error /\ Includes(error.message, Digits429))
          \/ ("message" \in DOMAIN error /\ Includes(error.message, Exhausted))
          \/ ("status" \in DOMAIN error /\ error.status = 429)
       THEN "RATE_LIMITED"
       ELSE "OTHER"

\* -------------------------------------------------------- executeWithRetry
\* The frame of one executeWithRetry call.  i, maxRetries, lastError and
\* apiKey are its locals; pc is where it is suspended ("op": awaiting the
\* operation inside the loop, "opDirect": awaiting operation("") of the
\* no-key path, "backoff": awaiting the timer) or how it ended.  keysUsed,
\* classes, lastRaised and waits record what happened in the call: the key
\* of each invocation, the outcome of each invocation, the value the last
\* invocation returned or raised, and the backoff waits.
NoResult == [kind |-> "none", v |-> Undefined]

NewFrame ==
  [pc |-> "idle", i |-> 0, maxRetries |-> 0, lastError |-> Undefined,
   apiKey |-> <<>>, result |-> NoResult,
   keysUsed |-> <<>>, classes |-> <<>>, lastRaised |-> Undefined, waits |-> 0]

\* slip: the cap of 5 left out
MaxRetriesNoCap(keys) == Len(keys)

\* slip: Math.max written for Math.min
MaxRetriesMax(keys) == Max(Len(keys), 5)

\* Math.min(keys.length, 5)
MaxRetries(keys) == Min(Len(keys), 5)

\* The loop from its head to the next suspension: with i < maxRetries take a
\* key and invoke the operation, otherwise throw lastError.  getNextApiKey
\* is called outside the try block, so what it raises leaves the call.
LoopStep(f, idx) ==
  IF f.i < f.maxRetries
  THEN LET r == GetNextApiKey(idx)
       IN  IF r.threw
           THEN [frame |-> [f EXCEPT !.pc = "thrown",
                                     !.result = [kind |-> "error", v |-> TypeErrorValue]],
                 keyIndex |-> idx, log |-> <<>>]
           ELSE [frame |-> [f EXCEPT !.pc = "op", !.apiKey = r.key,
                                     !.keysUsed = Append(@, r.key)],
                 keyIndex |-> r.keyIndex, log |-> r.log]
  ELSE [frame |-> [f EXCEPT !.pc = "thrown",
                            !.result = [kind |-> "error", v |-> f.lastError]],
        keyIndex |-> idx, log |-> <<>>]

\* slip: the single attempt of the no-key path left out
StartNoShortcut(c) ==
  /\ call[c].pc = "idle"
  /\ LET keys == RetryKeys
         s == LoopStep([NewFrame EXCEPT !.maxRetries = MaxRetries(keys)], keyIndex)
     IN  /\ call' = [call EXCEPT ![c] = s.frame]
         /\ keyIndex' = s.keyIndex
         /\ issued' = issued \o s.log
  /\ UNCHANGED process_env

\* slip: keyIndex = 0 at the head of executeWithRetry, every call starting on
\* the first key
StartResetsCursor(c) ==
  /\ call[c].pc = "idle"
  /\ LET keys == RetryKeys
     IN  IF Len(keys) = 0
         THEN /\ call' = [call EXCEPT ![c] =
                           [NewFrame EXCEPT !.pc = "opDirect", !.keysUsed = << <<>> >>]]
              /\ UNCHANGED <<keyIndex, issued>>
         ELSE LET s == LoopStep([NewFrame EXCEPT !.maxRetries = MaxRetries(keys)], 0)
              IN  /\ call' = [call EXCEPT ![c] = s.frame]
                  /\ keyIndex' = s.keyIndex
                  /\ issued' = issued \o s.log
  /\ UNCHANGED process_env

\* executeWithRetry(operation) up to its first await
Start(c) ==
  /\ call[c].pc = "idle"
  /\ LET keys == RetryKeys
     IN  IF Len(keys) = 0
         THEN /\ call' = [call EXCEPT ![c] =
                           [NewFrame EXCEPT !.pc = "opDirect", !.keysUsed = << <<>> >>]]
              /\ UNCHANGED <<keyIndex, issued>>
         ELSE LET s == LoopStep([NewFrame EXCEPT !.maxRetries = MaxRetries(keys)], keyIndex)
              IN  /\ call' = [call EXCEPT ![c] = s.frame]
                  /\ keyIndex' = s.keyIndex
                  /\ issued' = issued \o s.log
  /\ UNCHANGED process_env

\* the awaited operation resolves
OpSucceed(c) ==
  /\ call[c].pc \in {"op", "opDirect"}
  /\ LET f == call[c]
         v == [js |-> "value", at |-> Len(f.keysUsed)]
     IN  call' = [call EXCEPT ![c] =
                    [f EXCEPT !.pc = "returned",
                              !.result = [kind |-> "value", v |-> v],
                              !.classes = Append(@, "OK"),
                              !.lastRaised = v]]
  /\ UNCHANGED <<process_env, keyIndex, issued>>

\* slip: the throw of a failure that is no rate limit left out, so that
\* every failure is retried
OpFailRetryAll(c, shape) ==
  /\ call[c].pc \in {"op", "opDirect"}
  /\ LET f == call[c]
         error == Raise(shape, Len(f.keysUsed))
         g == [f EXCEPT !.classes = Append(@, Classify(error)), !.lastRaised = error]
     IN  call' = [call EXCEPT ![c] =
           IF f.pc = "opDirect"
           THEN [g EXCEPT !.pc = "thrown", !.result = [kind |-> "error", v |-> error]]
           ELSE IF Classify(error) = "TYPE_ERROR"
           THEN [g EXCEPT !.pc = "thrown", !.lastError = error,
                          !.result = [kind |-> "error", v |-> TypeErrorValue]]
           ELSE [g EXCEPT !.pc = "backoff", !.lastError = error, !.waits = @ + 1]]
  /\ UNCHANGED <<process_env, keyIndex, issued>>

\* slip: lastError assigned only while it is still undefined, so that the
\* first failure is kept
OpFailKeepFirst(c, shape) ==
  /\ call[c].pc \in {"op", "opDirect"}
  /\ LET f == call[c]
         error == Raise(shape, Len(f.keysUsed))
         kept == IF f.lastError = Undefined THEN error ELSE f.lastError
         g == [f EXCEPT !.classes = Append(@, Classify(error)), !.lastRaised = error]
     IN  call' = [call EXCEPT ![c] =
           IF f.pc = "opDirect"
           THEN [g EXCEPT !.pc = "thrown", !.result = [kind |-> "error", v |-> error]]
           ELSE IF Classify(error) = "TYPE_ERROR"
           THEN [g EXCEPT !.pc = "thrown", !.lastError = kept,
                          !.result = [kind |-> "error", v |-> TypeErrorValue]]
           ELSE IF Classify(error) = "RATE_LIMITED"
           THEN [g EXCEPT !.pc = "backoff", !.lastError = kept, !.waits = @ + 1]
           ELSE [g EXCEPT !.pc = "thrown", !.lastError = kept,
                          !.result = [kind |-> "error", v |-> error]]]
  /\ UNCHANGED <<process_env, keyIndex, issued>>

\* slip: the cursor moved on by a rate limit as well, to skip the key that
\* was refused
OpFailRotates(c, shape) ==
  /\ call[c].pc \in {"op", "opDirect"}
  /\ LET f == call[c]
         error == Raise(shape, Len(f.keysUsed))
         g == [f EXCEPT !.classes = Append(@, Classify(error)), !.lastRaised = error]
     IN  /\ call' = [call EXCEPT ![c] =
              IF f.pc = "opDirect"
              THEN [g EXCEPT !.pc = "thrown", !.result = [kind |-> "error", v |-> error]]
              ELSE IF Classify(error) = "TYPE_ERROR"
              THEN [g EXCEPT !.pc = "thrown", !.lastError = error,
                             !.result = [kind |-> "error", v |-> TypeErrorValue]]
              ELSE IF Classify(error) = "RATE_LIMITED"
              THEN [g EXCEPT !.pc = "backoff", !.lastError = error, !.waits = @ + 1]
              ELSE [g EXCEPT !.pc = "thrown", !.lastError = error,
                             !.result = [kind |-> "error", v |-> error]]]
         /\ keyIndex' = IF f.pc = "op" /\ Classify(error) = "RATE_LIMITED"
                        THEN (keyIndex + 1) % Len(PoolKeys) ELSE keyIndex
  /\ UNCHANGED <<process_env, issued>>

\* the awaited operation rejects with a value of the given shape
OpFail(c, shape) ==
  /\ call[c].pc \in {"op", "opDirect"}
  /\ LET f == call[c]
         error == Raise(shape, Len(f.keysUsed))
         g == [f EXCEPT !.classes = Append(@, Classify(error)), !.lastRaised = error]
     IN  call' = [call EXCEPT ![c] =
           IF f.pc = "opDirect"
           THEN [g EXCEPT !.pc = "thrown", !.result = [kind |-> "error", v |-> error]]
           ELSE IF Classify(error) = "TYPE_ERROR"
           THEN [g EXCEPT !.pc = "thrown", !.lastError = error,
                          !.result = [kind |-> "error", v |-> TypeErrorValue]]
           ELSE IF Classify(error) = "RATE_LIMITED"
           THEN [g EXCEPT !.pc = "backoff", !.lastError = error, !.waits = @ + 1]
           ELSE [g EXCEPT !.pc = "thrown", !.lastError = error,
                          !.result = [kind |-> "error", v |-> error]]]
  /\ UNCHANGED <<process_env, keyIndex, issued>>

\* keys.join(',')
RECURSIVE JoinComma(_)
JoinComma(keys) ==
  IF keys = <<>> THEN <<>>
  ELSE IF Len(keys) = 1 THEN keys[1]
  ELSE keys[1] \o <<",">> \o JoinComma(Tail(keys))

\* slip: the key that was refused taken out of process.env.API_KEY before
\* the next attempt
BackoffDoneDropsKey(c) ==
  /\ call[c].pc = "backoff"
  /\ LET s == LoopStep([call[c] EXCEPT !.i = @ + 1], keyIndex)
         rest == SelectSeq(PoolKeys, LAMBDA k : k # call[c].apiKey)
     IN  /\ call' = [call EXCEPT ![c] = s.frame]
         /\ keyIndex' = s.keyIndex
         /\ issued' = issued \o s.log
         /\ process_env' = [API_KEY |-> JoinComma(rest)]

\* slip: a key held by a call in flight is not handed out again, the loop
\* waiting until that call has ended
BackoffDoneWaitsForKey(c) ==
  /\ call[c].pc = "backoff"
  /\ \A e \in Calls \ {c} :
       call[e].pc \in {"op", "backoff"} => call[e].apiKey # PoolKeys[keyIndex + 1]
  /\ \E s \in {LoopStep([call[c] EXCEPT !.i = @ + 1], keyIndex)} :
        /\ call' = [call EXCEPT ![c] = s.frame]
        /\ keyIndex' = s.keyIndex
        /\ issued' = issued \o s.log
  /\ UNCHANGED process_env

\* slip: new Promise(() => setTimeout(...)), a promise that nothing resolves
BackoffDoneNeverResolves(c) ==
  /\ call[c].pc = "backoff"
  /\ UNCHANGED vars

\* the backoff timer fires: continue, i++, and the loop head again
BackoffDone(c) ==
  /\ call[c].pc = "backoff"
  /\ \E s \in {LoopStep([call[c] EXCEPT !.i = @ + 1], keyIndex)} :
        /\ call' = [call EXCEPT ![c] = s.frame]
        /\ keyIndex' = s.keyIndex
        /\ issued' = issued \o s.log
  /\ UNCHANGED process_env

\* ------------------------------------------------------ feature operations
\* the exported functions, each executeWithRetry(async (apiKey) => ...)
FeatureOps ==
  {"analyzeExam", "analyzeFrame", "askProfessor", "generateWorksheet",
   "sendSolverMessage", "analyzeNotebook", "generateQuizQuestion"}

\* if (!text) throw new Error(...): the features that raise on an empty
\* response.text, with the message they raise
EmptyTextError ==
  [analyzeExam |-> <<"No", " ", "response", " ", "from", " ", "AI">>,
   analyzeFrame |-> <<"No", " ", "response", " ", "from", " ", "AI">>,
   generateWorksheet |-> <<"Failed", " ", "to", " ", "generate", " ", "worksheet">>,
   analyzeNotebook |-> <<"No", " ", "response">>,
   generateQuizQuestion |-> <<"Quiz", " ", "gen", " ", "failed">>]

\* response.text || "...": the features that return a text of their own
EmptyTextDefault ==
  [askProfessor |-> <<"I", " ", "couldn't", " ", "understand", " ", "that.">>,
   sendSolverMessage |-> <<"I", " ", "couldn't", " ", "generate", " ", "a", " ", "response.">>]

\* request[c]: the feature behind call c ("operation" when nothing is known
\* of the operation) and emptyAt, the invocation that was answered with an
\* empty response.text (0: none)
NoRequest == [feature |-> "operation", emptyAt |-> 0]

\* generateContent resolves with an empty response.text: the operation of
\* the feature raises its Error, or returns its default text
ResponseEmpty(c) ==
  /\ call[c].pc \in {"op", "opDirect"}
  /\ request[c].feature \in FeatureOps
  /\ request[c].emptyAt = 0
  /\ request' = [request EXCEPT ![c].emptyAt = Len(call[c].keysUsed)]
  /\ IF request[c].feature \in DOMAIN EmptyTextError
     THEN OpFail(c, [js |-> "Error", message |-> EmptyTextError[request[c].feature]])
     ELSE LET f == call[c]
              v == [js |-> "value", at |-> Len(f.keysUsed),
                    text |-> EmptyTextDefault[request[c].feature]]
          IN  /\ call' = [call EXCEPT ![c] =
                            [f EXCEPT !.pc = "returned",
                                      !.result = [kind |-> "value", v |-> v],
                                      !.classes = Append(@, "OK"),
                                      !.lastRaised = v]]
              /\ UNCHANGED <<process_env, keyIndex, issued>>

\* --------------------------------------------------------------- QuizBattle
\* The useState hooks that the answers touch, by their names.  question is
\* the number of the generated question on display (0: null);
\* selectedOption is "null" or tells whether the chosen option is the
\* correct answer.  timeouts holds the callbacks handed to setTimeout that
\* have not run yet; startGames and nextRounds count the calls suspended in
\* await generateQuizQuestion(...).  generated counts the questions set,
\* answers the calls of handleAnswer that passed its guard, and accepted
\* those of them made on the question on display.
QuizInit ==
  [gameState |-> "lobby", question |-> 0, loading |-> FALSE,
   selectedOption |-> "null", score |-> 0, streak |-> 0, health |-> 3,
   totalXP |-> 0,
   timeouts |-> <<>>, startGames |-> 0, nextRounds |-> 0,
   generated |-> 0, answers |-> 0, accepted |-> 0]

\* sequence s without its k-th element
RemoveAt(s, k) == SubSeq(s, 1, k - 1) \o SubSeq(s, k + 1, Len(s))

\* startGame(topic) up to its await; the button is disabled={loading}
StartGame ==
  /\ quiz.gameState = "lobby"
  /\ ~quiz.loading
  /\ quiz.generated + quiz.startGames + quiz.nextRounds < MaxQuestions
  /\ quiz' = [quiz EXCEPT !.loading = TRUE, !.startGames = @ + 1]

\* startGame after its await: the question arrived, or the catch block
StartGameDone(ok) ==
  /\ quiz.startGames > 0
  /\ quiz' = IF ok
             THEN [quiz EXCEPT !.startGames = @ - 1,
                               !.question = quiz.generated + 1,
                               !.generated = @ + 1,
                               !.accepted = 0,
                               !.gameState = "playing",
                               !.selectedOption = "null",
                               !.loading = FALSE]
             ELSE [quiz EXCEPT !.startGames = @ - 1, !.loading = FALSE]

\* handleAnswer(option), called by the button of an option: the buttons are
\* rendered when gameState === 'playing' && question, and disabled by
\* !!selectedOption; the function itself returns on selectedOption || !question
HandleAnswer(isCorrect) ==
  /\ quiz.gameState = "playing"
  /\ quiz.question # 0
  /\ quiz.selectedOption = "null"
  /\ quiz.answers < MaxAnswers
  /\ quiz' =
       IF isCorrect
       THEN LET points == 100 + (quiz.streak * 10)
            IN  [quiz EXCEPT !.selectedOption = "correct",
                             !.score = @ + points,
                             !.totalXP = @ + points,
                             !.streak = @ + 1,
                             !.timeouts = Append(@, "nextRound"),
                             !.answers = @ + 1,
                             !.accepted = @ + 1]
       ELSE [quiz EXCEPT !.selectedOption = "wrong",
                         !.health = @ - 1,
                         !.streak = 0,
                         !.timeouts = Append(@, IF quiz.health - 1 <= 0
                                                THEN "handleGameOver" ELSE "nextRound"),
                         !.answers = @ + 1,
                         !.accepted = @ + 1]

\* a timeout set by handleAnswer runs: nextRound up to its await, or
\* handleGameOver("Defeated!")
TimeoutFires(k) ==
  /\ k \in 1..Len(quiz.timeouts)
  /\ quiz' = IF quiz.timeouts[k] = "nextRound"
             THEN [quiz EXCEPT !.timeouts = RemoveAt(@, k),
                               !.loading = TRUE,
                               !.selectedOption = "null",
                               !.nextRounds = @ + 1]
             ELSE [quiz EXCEPT !.timeouts = RemoveAt(@, k),
                               !.gameState = "result"]

\* nextRound after its await: the next question arrived, or
\* handleGameOver("Error generating enemy"); finally setLoading(false)
NextRoundDone(ok) ==
  /\ quiz.nextRounds > 0
  /\ quiz' = IF ok
             THEN [quiz EXCEPT !.nextRounds = @ - 1,
                               !.question = quiz.generated + 1,
                               !.generated = @ + 1,
                               !.accepted = 0,
                               !.loading = FALSE]
             ELSE [quiz EXCEPT !.nextRounds = @ - 1,
                               !.gameState = "result",
                               !.loading = FALSE]

\* the countdown, which runs while playing with no option selected, reaches
\* 0: handleGameOver("Time's Up!")
TimeUp ==
  /\ quiz.gameState = "playing"
  /\ quiz.selectedOption = "null"
  /\ quiz' = [quiz EXCEPT !.gameState = "result"]

\* the Play Again button of the result screen
PlayAgain ==
  /\ quiz.gameState = "result"
  /\ quiz' = [quiz EXCEPT !.gameState = "lobby", !.health = 3, !.score = 0, !.streak = 0]

\* ------------------------------------------------------------------ MathCam
\* App renders <MathCam /> only while activeTab === 'cam', so opening the tab
\* mounts a new instance with fresh hooks and leaving it unmounts the
\* instance.  instance is the number of the mounted instance (0: none) and
\* mounts the instances made so far; isStreaming, autoCapture, isAnalyzing
\* and result (TRUE: not null) are the hooks of the mounted instance.
\* inFlight holds, for every analyzeFrame request that has not settled, the
\* instance that made it; analyses counts the requests made.
CamHooks ==
  [isStreaming |-> FALSE, autoCapture |-> FALSE, isAnalyzing |-> FALSE,
   result |-> FALSE]

CamInit ==
  [instance |-> 0, mounts |-> 0, hooks |-> CamHooks,
   inFlight |-> <<>>, analyses |-> 0]

\* the cam tab is selected: a new MathCam with the initial hooks
MountCam ==
  /\ cam.instance = 0
  /\ cam.mounts < MaxMounts
  /\ cam' = [cam EXCEPT !.instance = cam.mounts + 1, !.mounts = @ + 1,
                        !.hooks = CamHooks]

\* another tab is selected: the instance and its hooks are gone, the
\* requests it made are not
UnmountCam ==
  /\ cam.instance # 0
  /\ cam' = [cam EXCEPT !.instance = 0, !.hooks = CamHooks]

\* startCamera got its stream: setIsStreaming(true)
CameraStarted ==
  /\ cam.instance # 0
  /\ ~cam.hooks.isStreaming
  /\ cam' = [cam EXCEPT !.hooks.isStreaming = TRUE]

\* the LIVE button: setAutoCapture(!autoCapture)
ToggleAutoCapture ==
  /\ cam.instance # 0
  /\ cam' = [cam EXCEPT !.hooks.autoCapture = ~@]

\* the close button of the result card: setResult(null)
CloseResult ==
  /\ cam.instance # 0
  /\ cam.hooks.result
  /\ cam' = [cam EXCEPT !.hooks.result = FALSE]

\* captureAndAnalyze up to its await, called by the interval (set while
\* autoCapture && isStreaming) or by the Snap Solution button (rendered
\* while !result); it returns at once on isAnalyzing || !isStreaming
CaptureAndAnalyze(trigger) ==
  /\ cam.instance # 0
  /\ \/ trigger = "interval" /\ cam.hooks.autoCapture
     \/ trigger = "button" /\ ~cam.hooks.result
  /\ cam.hooks.isStreaming
  /\ ~cam.hooks.isAnalyzing
  /\ cam.analyses < MaxAnalyses
  /\ cam' = [cam EXCEPT !.hooks.isAnalyzing = TRUE,
                        !.inFlight = Append(@, cam.instance),
                        !.analyses = @ + 1]

\* captureAndAnalyze after its await, for the k-th pending request:
\* setResult(data) or the catch block, then finally setIsAnalyzing(false);
\* the setters of an instance that is no longer mounted do nothing
AnalysisDone(k, ok) ==
  /\ k \in 1..Len(cam.inFlight)
  /\ cam' = IF cam.inFlight[k] = cam.instance
            THEN [cam EXCEPT !.inFlight = RemoveAt(@, k),
                             !.hooks.isAnalyzing = FALSE,
                             !.hooks.result = IF ok THEN TRUE ELSE @]
            ELSE [cam EXCEPT !.inFlight = RemoveAt(@, k)]

\* ------------------------------------------------------- sessions of App
\* The storage keys `${kind}_${userId}_${id}` of one user, as [kind, id].
StorageKinds == {"exam_data", "notebook_data", "prof_data", "solver_data"}
ChatKinds == {"prof_data", "solver_data"}

StorageKey(kind, id) == [kind |-> kind, id |-> id]

\* App after the effect that loads a user with no saved history: it ends
\* with startNewSession().  Session ids are Date.now().toString(), here the
\* numbers 1, 2, ... in the order they are made (sessions: the last one).
\* historyItems holds the ids of the items, newest first; localStorage the
\* keys that hold an entry; loading and messages (TRUE: not empty) are the
\* hooks of the components, which stay mounted when the session changes;
\* pending holds, for every request that has not settled, the component and
\* the sessionId its handler was called with.  deleted records the ids
\* passed to deleteSession, and requests counts the requests made.
AppInit ==
  [historyItems |-> <<>>, currentSessionId |-> 1, sessions |-> 1,
   localStorage |-> {},
   loading |-> [kind \in StorageKinds |-> FALSE],
   messages |-> [kind \in ChatKinds |-> FALSE],
   pending |-> <<>>, requests |-> 0, deleted |-> {}]

\* setCurrentSessionId(id) and, when the id changes, the effects of the
\* chat components that load the messages saved under the new sessionId
SetCurrentSessionId(a, id) ==
  IF id = a.currentSessionId THEN a
  ELSE [a EXCEPT !.currentSessionId = id,
                 !.messages = [kind \in ChatKinds |->
                                 StorageKey(kind, id) \in a.localStorage]]

\* updateHistory(id, title): the item retitled, or a new item put first
UpdateHistory(items, id) ==
  IF \E k \in 1..Len(items) : items[k] = id THEN items ELSE <<id>> \o items

\* startNewSession(), by the New Session button or the choice of a tab
StartNewSession ==
  /\ app.sessions < MaxSessions
  /\ app' = SetCurrentSessionId([app EXCEPT !.sessions = @ + 1], app.sessions + 1)

\* an item of the sidebar is clicked: onSelectSession(item.id)
SelectSession(id) ==
  /\ \E k \in 1..Len(app.historyItems) : app.historyItems[k] = id
  /\ app' = SetCurrentSessionId(app, id)

\* deleteSession(e, id), by the delete button of a sidebar item
DeleteSession(id) ==
  /\ \E k \in 1..Len(app.historyItems) : app.historyItems[k] = id
  /\ app.currentSessionId = id => app.sessions < MaxSessions
  /\ LET removed == [app EXCEPT
                       !.historyItems = SelectSeq(@, LAMBDA i : i # id),
                       !.localStorage = @ \ {StorageKey(kind, id) : kind \in StorageKinds},
                       !.deleted = @ \cup {id}]
     IN  app' = IF app.currentSessionId = id
                THEN SetCurrentSessionId([removed EXCEPT !.sessions = @ + 1],
                                         app.sessions + 1)
                ELSE removed

\* the part of a chat handler before its await: the messages saved under
\* the storage key of the sessionId, the history given an item when this is
\* the first message, and the request made
ChatSend(kind) ==
  /\ app.requests < MaxRequests
  /\ app' = [app EXCEPT
               !.localStorage = @ \cup {StorageKey(kind, app.currentSessionId)},
               !.historyItems = IF app.messages[kind] THEN @
                                ELSE UpdateHistory(@, app.currentSessionId),
               !.messages[kind] = TRUE,
               !.loading[kind] = TRUE,
               !.pending = Append(@, StorageKey(kind, app.currentSessionId)),
               !.requests = @ + 1]

\* SolverChat.handleSendMessage up to its await; it returns on loading
HandleSendMessage ==
  /\ ~app.loading["solver_data"]
  /\ ChatSend("solver_data")

\* handleSendMessage after its await, for the k-th pending request: the
\* answer saved under the storageKey built before the await, or the empty
\* catch block; finally setLoading(false)
HandleSendMessageDone(k, ok) ==
  /\ k \in 1..Len(app.pending)
  /\ app.pending[k].kind = "solver_data"
  /\ app' = [app EXCEPT
               !.pending = RemoveAt(@, k),
               !.localStorage = IF ok THEN @ \cup {app.pending[k]} ELSE @,
               !.messages["solver_data"] = IF ok THEN TRUE ELSE @,
               !.loading["solver_data"] = FALSE]

\* Professor.handleSend up to its await; the Enter key calls it whatever
\* loading is
HandleSend ==
  ChatSend("prof_data")

\* handleSend after its await, for the k-th pending request: the answer, or
\* in the catch block the apology, saved under the storageKey built before
\* the await; finally setLoading(false)
HandleSendDone(k, ok) ==
  /\ k \in 1..Len(app.pending)
  /\ app.pending[k].kind = "prof_data"
  /\ app' = [app EXCEPT
               !.pending = RemoveAt(@, k),
               !.localStorage = @ \cup {app.pending[k]},
               !.messages["prof_data"] = TRUE,
               !.loading["prof_data"] = FALSE]

\* the part of an upload handler before the await in reader.onloadend; the
\* button is disabled={loading}
UploadSend(kind) ==
  /\ ~app.loading[kind]
  /\ app.requests < MaxRequests
  /\ app' = [app EXCEPT
               !.loading[kind] = TRUE,
               !.pending = Append(@, StorageKey(kind, app.currentSessionId)),
               !.requests = @ + 1]

\* reader.onloadend after its await, for the k-th pending request: the
\* result saved under the key of the sessionId the handler was called with,
\* onUpdateHistory(sessionId, title) and setLoading(false); a rejection
\* leaves onloadend at the await, outside the try of the handler
UploadDone(kind, k, ok) ==
  /\ k \in 1..Len(app.pending)
  /\ app.pending[k].kind = kind
  /\ app' = IF ok
            THEN [app EXCEPT
                    !.pending = RemoveAt(@, k),
                    !.localStorage = @ \cup {app.pending[k]},
                    !.historyItems = UpdateHistory(@, app.pending[k].id),
                    !.loading[kind] = FALSE]
            ELSE [app EXCEPT !.pending = RemoveAt(@, k)]

\* ExamMaster.handleAnalyze
HandleAnalyze == UploadSend("exam_data")

HandleAnalyzeDone(k, ok) == UploadDone("exam_data", k, ok)

\* NotebookSync.handleUpload
HandleUpload == UploadSend("notebook_data")

HandleUploadDone(k, ok) == UploadDone("notebook_data", k, ok)

\* the callers before anything has been asked of them; executeWithRetry is
\* then called with an operation of which nothing is known
ClientInit ==
  /\ request = [c \in Calls |-> NoRequest]
  /\ quiz = QuizInit
  /\ cam = CamInit
  /\ app = AppInit

Init ==
  /\ process_env \in Environments
  /\ keyIndex = 0
  /\ call = [c \in Calls |-> NewFrame]
  /\ issued = <<>>
  /\ ClientInit

Next ==
  \E c \in Calls :
     \/ Start(c) /\ UNCHANGED clientVars
     \/ OpSucceed(c) /\ UNCHANGED clientVars
     \/ \E shape \in ErrorShapes : OpFail(c, shape) /\ UNCHANGED clientVars
     \/ BackoffDone(c) /\ UNCHANGED clientVars

Spec == Init /\ [][Next]_vars

\* One rejection for each way the catch block is left: retried (status
\* 429), rethrown (status 400), and the TypeError raised on null.
LiveShapes ==
  {shape \in ErrorShapes : "status" \in DOMAIN shape \/ shape.js = "null"}

NextLive ==
  \E c \in Calls :
     \/ Start(c) /\ UNCHANGED clientVars
     \/ OpSucceed(c) /\ UNCHANGED clientVars
     \/ \E shape \in LiveShapes : OpFail(c, shape) /\ UNCHANGED clientVars
     \/ BackoffDone(c) /\ UNCHANGED clientVars

\* The proviso of termination: an operation that was invoked completes, by
\* resolving or rejecting, and a backoff timer that was set fires.  No call
\* is bound to start.
FairSpec ==
  /\ Init
  /\ [][NextLive]_vars
  /\ \A c \in Calls :
       /\ WF_vars(/\ OpSucceed(c) \/ \E shape \in LiveShapes : OpFail(c, shape)
                  /\ UNCHANGED clientVars)
       /\ WF_vars(BackoffDone(c) /\ UNCHANGED clientVars)

\* The call whose operation may hang: nothing is assumed of its operation
\* or of its timers, while the operations of the other calls complete and
\* their timers fire.
HungCall == 1

HungSpec ==
  /\ Init
  /\ [][NextLive]_vars
  /\ \A c \in Calls \ {HungCall} :
       /\ WF_vars(/\ OpSucceed(c) \/ \E shape \in LiveShapes : OpFail(c, shape)
                  /\ UNCHANGED clientVars)
       /\ WF_vars(BackoffDone(c) /\ UNCHANGED clientVars)

\* Calls made by the features: every call of the process is made by the same
\* feature, whichever it is, and a response may come with an empty text.
InitFeature ==
  /\ process_env \in Environments
  /\ keyIndex = 0
  /\ call = [c \in Calls |-> NewFrame]
  /\ issued = <<>>
  /\ \E f \in FeatureOps : request = [c \in Calls |-> [feature |-> f, emptyAt |-> 0]]
  /\ quiz = QuizInit
  /\ cam = CamInit
  /\ app = AppInit

NextFeature ==
  \E c \in Calls :
     \/ Start(c) /\ UNCHANGED clientVars
     \/ OpSucceed(c) /\ UNCHANGED clientVars
     \/ \E shape \in LiveShapes : OpFail(c, shape) /\ UNCHANGED clientVars
     \/ BackoffDone(c) /\ UNCHANGED clientVars
     \/ ResponseEmpty(c) /\ UNCHANGED <<quiz, cam, app>>

SpecFeature == InitFeature /\ [][NextFeature]_vars

\* QuizBattle alone: what generateQuizQuestion returns or raises is left open.
NextQuiz ==
  \/ StartGame /\ UNCHANGED <<retryVars, request, cam, app>>
  \/ \E ok \in BOOLEAN : StartGameDone(ok) /\ UNCHANGED <<retryVars, request, cam, app>>
  \/ \E isCorrect \in BOOLEAN : HandleAnswer(isCorrect) /\ UNCHANGED <<retryVars, request, cam, app>>
  \/ \E k \in 1..MaxAnswers : TimeoutFires(k) /\ UNCHANGED <<retryVars, request, cam, app>>
  \/ \E ok \in BOOLEAN : NextRoundDone(ok) /\ UNCHANGED <<retryVars, request, cam, app>>
  \/ TimeUp /\ UNCHANGED <<retryVars, request, cam, app>>
  \/ PlayAgain /\ UNCHANGED <<retryVars, request, cam, app>>

SpecQuiz == Init /\ [][NextQuiz]_vars

\* MathCam alone: what analyzeFrame returns or raises is left open.
NextCam ==
  \/ MountCam /\ UNCHANGED <<retryVars, request, quiz, app>>
  \/ UnmountCam /\ UNCHANGED <<retryVars, request, quiz, app>>
  \/ CameraStarted /\ UNCHANGED <<retryVars, request, quiz, app>>
  \/ ToggleAutoCapture /\ UNCHANGED <<retryVars, request, quiz, app>>
  \/ CloseResult /\ UNCHANGED <<retryVars, request, quiz, app>>
  \/ \E trigger \in {"interval", "button"} :
        CaptureAndAnalyze(trigger) /\ UNCHANGED <<retryVars, request, quiz, app>>
  \/ \E k \in 1..MaxAnalyses, ok \in BOOLEAN :
        AnalysisDone(k, ok) /\ UNCHANGED <<retryVars, request, quiz, app>>

SpecCam == Init /\ [][NextCam]_vars

\* The sessions of App and the components bound to them: what the feature
\* operations return or raise is left open.
NextApp ==
  \/ StartNewSession /\ UNCHANGED <<retryVars, request, quiz, cam>>
  \/ \E id \in 1..MaxSessions :
        SelectSession(id) /\ UNCHANGED <<retryVars, request, quiz, cam>>
  \/ \E id \in 1..MaxSessions :
        DeleteSession(id) /\ UNCHANGED <<retryVars, request, quiz, cam>>
  \/ HandleSendMessage /\ UNCHANGED <<retryVars, request, quiz, cam>>
  \/ \E k \in 1..MaxRequests, ok \in BOOLEAN :
        HandleSendMessageDone(k, ok) /\ UNCHANGED <<retryVars, request, quiz, cam>>
  \/ HandleSend /\ UNCHANGED <<retryVars, request, quiz, cam>>
  \/ \E k \in 1..MaxRequests, ok \in BOOLEAN :
        HandleSendDone(k, ok) /\ UNCHANGED <<retryVars, request, quiz, cam>>
  \/ HandleAnalyze /\ UNCHANGED <<retryVars, request, quiz, cam>>
  \/ \E k \in 1..MaxRequests, ok \in BOOLEAN :
        HandleAnalyzeDone(k, ok) /\ UNCHANGED <<retryVars, request, quiz, cam>>
  \/ HandleUpload /\ UNCHANGED <<retryVars, request, quiz, cam>>
  \/ \E k \in 1..MaxRequests, ok \in BOOLEAN :
        HandleUploadDone(k, ok) /\ UNCHANGED <<retryVars, request, quiz, cam>>

SpecApp == Init /\ [][NextApp]_vars

\* Calls one after the other: executeWithRetry is called only while no other
\* call is suspended in it.
NextSolo ==
  \E c \in Calls :
     \/ /\ Start(c)
        /\ \A e \in Calls \ {c} : call[e].pc \notin {"op", "opDirect", "backoff"}
        /\ UNCHANGED clientVars
     \/ OpSucceed(c) /\ UNCHANGED clientVars
     \/ \E shape \in ErrorShapes : OpFail(c, shape) /\ UNCHANGED clientVars
     \/ BackoffDone(c) /\ UNCHANGED clientVars

SpecSolo == Init /\ [][NextSolo]_vars

\* One call, on every spelling of API_KEY.
InitConfig ==
  /\ process_env \in ConfigEnvironments
  /\ keyIndex = 0
  /\ call = [c \in Calls |-> NewFrame]
  /\ issued = <<>>
  /\ ClientInit

NextConfig ==
  \/ Start(1) /\ UNCHANGED clientVars
  \/ OpSucceed(1) /\ UNCHANGED clientVars
  \/ \E shape \in ErrorShapes : OpFail(1, shape) /\ UNCHANGED clientVars
  \/ BackoffDone(1) /\ UNCHANGED clientVars

SpecConfig == InitConfig /\ [][NextConfig]_vars

\* ------------------------------------------------------------- vocabulary
\* pool size n
N == Len(PoolKeys)

\* the Retry Budget of the specification: min(n, 5), and 1 for the empty pool
Budget == IF N = 0 THEN 1 ELSE Min(N, 5)

\* invocations of the operation made so far by call c
Invocations(c) == Len(call[c].keysUsed)

AllRateLimited(classes) == \A k \in 1..Len(classes) : classes[k] = "RATE_LIMITED"

PairwiseDistinct(s) == \A j, k \in 1..Len(s) : j # k => s[j] # s[k]

Finished(c) == call[c].pc \in {"returned", "thrown"}

InFlight(c) == call[c].pc \in {"op", "backoff"}

\* invocations made so far by the calls 1..c together
RECURSIVE InvocationsUpTo(_)
InvocationsUpTo(c) == IF c = 0 THEN 0 ELSE Invocations(c) + InvocationsUpTo(c - 1)

\* ------------------------------------------------------------------ claims

\* C1: whatever the pool size, the outcomes of the operation and the
\* interleaving with other calls, one call of executeWithRetry invokes the
\* operation at most Retry Budget times (min(n, 5), and 1 when n = 0).
C1_AtMostBudgetInvocations ==
  \A c \in Calls : Invocations(c) <= Budget

\* a call has used its whole budget of 5 on a pool of more than 5 keys
\* while another call was taking keys too
C1_Witness ==
  \E c, d \in Calls :
     /\ c # d
     /\ N > 5
     /\ Invocations(c) = 5
     /\ call[c].pc = "thrown"
     /\ Invocations(d) >= 2

\* C2: when the first invocation fails with a failure classified OTHER, the
\* call ends there: one invocation, and the caller receives the very value
\* that this invocation raised (n >= 1, any cursor position).
C2_OtherFailsOnceUnchanged ==
  \A c \in Calls :
     (N >= 1 /\ call[c].classes # <<>> /\ call[c].classes[1] = "OTHER")
     => /\ Invocations(c) = 1
        /\ call[c].classes = <<"OTHER">>
        /\ call[c].pc = "thrown"
        /\ call[c].waits = 0
        /\ call[c].result = [kind |-> "error", v |-> call[c].lastRaised]
        /\ call[c].lastRaised.at = 1

\* a call started at a cursor position other than 0 has ended on an OTHER
\* failure of its first invocation
C2_Witness ==
  \E c \in Calls :
     /\ N >= 2
     /\ call[c].pc = "thrown"
     /\ call[c].classes = <<"OTHER">>
     /\ call[c].keysUsed # <<PoolKeys[1]>>

\* C4: a call whose every invocation failed RATE_LIMITED has, once it has
\* ended, invoked the operation exactly Budget times and fails with the value
\* raised by the last, Budget-th, invocation.
C4_ExhaustedThrowsLast ==
  \A c \in Calls :
     (call[c].pc = "thrown" /\ AllRateLimited(call[c].classes))
     => /\ Invocations(c) = Budget
        /\ Len(call[c].classes) = Budget
        /\ call[c].result = [kind |-> "error", v |-> call[c].lastRaised]
        /\ call[c].lastRaised.at = Budget

\* a call has ended after three or more RATE_LIMITED failures
C4_Witness ==
  \E c \in Calls :
     /\ call[c].pc = "thrown"
     /\ Len(call[c].classes) >= 3
     /\ AllRateLimited(call[c].classes)

\* C5: for n >= 1 the loop bound is min(n, 5): an operation that always
\* fails RATE_LIMITED is attempted n times when n <= 5 and 5 times when n > 5.
C5_BudgetIsMinOfPoolAndFive ==
  \A c \in Calls :
     (N >= 1 /\ call[c].pc # "idle")
     => /\ call[c].maxRetries = (IF N <= 5 THEN N ELSE 5)
        /\ (call[c].pc = "thrown" /\ AllRateLimited(call[c].classes))
           => Invocations(c) = (IF N <= 5 THEN N ELSE 5)

\* on a pool of more than 5 keys a call has ended after 5 RATE_LIMITED
\* failures
C5_Witness ==
  \E c \in Calls :
     /\ N > 5
     /\ call[c].pc = "thrown"
     /\ AllRateLimited(call[c].classes)
     /\ Invocations(c) = 5

\* C3: a call that returned after k RATE_LIMITED failures (k < budget) and a
\* success made exactly k+1 invocations, with k+1 pairwise distinct keys, and
\* returns the value of invocation k+1.
C3_SuccessAfterRateLimits ==
  \A c \in Calls :
     (N >= 1 /\ call[c].pc = "returned")
     => LET k == Len(call[c].classes) - 1
        IN  /\ k < Budget
            /\ AllRateLimited(SubSeq(call[c].classes, 1, k))
            /\ call[c].classes[k + 1] = "OK"
            /\ Invocations(c) = k + 1
            /\ PairwiseDistinct(call[c].keysUsed)
            /\ call[c].result = [kind |-> "value", v |-> [js |-> "value", at |-> k + 1]]

\* C6: with the empty pool getNextApiKey returns "" without raising and
\* leaves the cursor alone, and executeWithRetry invokes the operation once
\* with "", never waits, never moves the cursor, and ends with exactly what
\* that invocation returned or raised, a RATE_LIMITED failure included.
C6_EmptyPoolSingleAttempt ==
  N = 0 =>
    /\ GetNextApiKey(keyIndex) =
         [threw |-> FALSE, key |-> <<>>, keyIndex |-> keyIndex, log |-> <<>>]
    /\ keyIndex = 0
    /\ issued = <<>>
    /\ \A c \in Calls :
         call[c].pc # "idle" =>
           /\ call[c].keysUsed = << <<>> >>
           /\ call[c].waits = 0
           /\ call[c].pc \in {"opDirect", "returned", "thrown"}
           /\ call[c].pc = "returned" =>
                call[c].result = [kind |-> "value", v |-> [js |-> "value", at |-> 1]]
           /\ call[c].pc = "thrown" =>
                /\ call[c].result = [kind |-> "error", v |-> call[c].lastRaised]
                /\ Len(call[c].classes) = 1

\* with the empty pool one call has failed on a RATE_LIMITED failure and
\* another has returned
C6_Witness ==
  /\ N = 0
  /\ \E c, d \in Calls :
       /\ call[c].pc = "thrown"
       /\ call[c].classes = <<"RATE_LIMITED">>
       /\ call[d].pc = "returned"

\* C7: for n >= 1 the first n keys handed out are the n configured keys in
\* their order, each position once, and the (n+1)-th is the first key again.
C7_FirstRoundInOrderThenWraps ==
  LET pool == PoolKeys
      n == Len(pool)
  IN  n >= 1 =>
        /\ \A k \in 1..Min(Len(issued), n) :
             issued[k].key = pool[k] /\ issued[k].pos = k - 1
        /\ Len(issued) > n =>
             issued[n + 1].key = pool[1] /\ issued[n + 1].pos = 0

\* n + 1 keys have been handed out of a pool of n >= 3 keys
C7_Witness ==
  N >= 3 /\ Len(issued) = N + 1

\* C8: within one call no key is passed to the operation twice, whatever
\* the interleaving with other calls.
C8_NoKeyReusedInCall ==
  \A c \in Calls : N >= 1 => PairwiseDistinct(call[c].keysUsed)

\* C9 as stated: a later issuance always receives a larger cursor position
\* than every earlier one.
C9_PositionsStrictlyIncreasing ==
  \A j, k \in 1..Len(issued) : j < k => issued[j].pos < issued[k].pos

\* C9 as amended: in the order of the getNextApiKey calls each issuance
\* receives the position after the previous one modulo n, so positions
\* increase by one until the cursor wraps to 0, and any n consecutive
\* issuances receive n different positions.
C9_PositionsSuccessiveModulo ==
  LET n == N
  IN  /\ \A k \in 2..Len(issued) :
           /\ issued[k].pos = (issued[k - 1].pos + 1) % n
           /\ issued[k].pos # 0 => issued[k].pos = issued[k - 1].pos + 1
      /\ \A j, k \in 1..Len(issued) :
           (j < k /\ k - j < n) => issued[j].pos # issued[k].pos

\* two calls are in flight, both have taken keys, and the cursor has wrapped
C9_Witness ==
  /\ N >= 2
  /\ Len(issued) > N
  /\ \E c, d \in Calls :
       c # d /\ Invocations(c) >= 2 /\ Invocations(d) >= 2

\* C10: the cursor is read and advanced in one step: it always equals the
\* number of keys handed out so far modulo n, lies in 0..n-1, and the k-th
\* issuance overall (from 0) returned pool[k mod n].
C10_CursorIsIssuedModN ==
  LET pool == PoolKeys
      n == Len(pool)
  IN  n >= 1 =>
        /\ keyIndex \in 0..(n - 1)
        /\ keyIndex = Len(issued) % n
        /\ \A k \in 1..Len(issued) : issued[k].key = pool[((k - 1) % n) + 1]
        /\ Len(issued) = InvocationsUpTo(NumCalls)

\* two calls are suspended in their loops, the cursor has wrapped and stands
\* inside the pool
C10_Witness ==
  /\ N >= 2
  /\ Len(issued) > N
  /\ keyIndex # 0
  /\ \E c, d \in Calls : c # d /\ InFlight(c) /\ InFlight(d)

\* the outcome of the last invocation of a call that has made one
LastClass(c) == call[c].classes[Len(call[c].classes)]

\* the last invocation of call c has failed
LastFailed(c) == call[c].classes # <<>> /\ LastClass(c) # "OK"

\* What the comment of the test announces, "Rate Limit (429) or Quota
\* issues": a 429 status, or a message of resource exhaustion or of an
\* exceeded quota.
QuotaExceeded == <<"Quota", " ", "exceeded">>

SignalsQuota(error) ==
  \/ ("status" \in DOMAIN error /\ error.status = 429)
  \/ ("message" \in DOMAIN error /\ Includes(error.message, Exhausted))
  \/ ("message" \in DOMAIN error /\ Includes(error.message, QuotaExceeded))

\* C11: one call performs at most budget - 1 backoff waits (each shorter
\* than 500ms, so at most (budget - 1) x 500ms in all), also when every
\* attempt fails RATE_LIMITED.
C11_AtMostBudgetMinusOneWaits ==
  \A c \in Calls : call[c].waits <= Budget - 1

\* C12: whenever a call fails, the caller receives the very value that the
\* last failed invocation raised, whatever that value is.
C12_FailurePropagatedUnchanged ==
  \A c \in Calls :
     call[c].pc = "thrown"
     => call[c].result = [kind |-> "error", v |-> call[c].lastRaised]

\* C13: a failure with a 429 status, a message of resource exhaustion or a
\* message of an exceeded quota is RATE_LIMITED: inside the loop it leads to
\* a backoff and, while budget remains, to a further attempt.
C13_QuotaSignalsAreRetried ==
  \A c \in Calls :
     (N >= 1 /\ LastFailed(c) /\ SignalsQuota(call[c].lastRaised))
     => /\ LastClass(c) = "RATE_LIMITED"
        /\ Invocations(c) < Budget => call[c].pc = "backoff"

\* C14: a failure that is no quota rejection is terminal: the call ends
\* with it and never waits to retry, whatever its message contains.
C14_OtherFailuresAreTerminal ==
  \A c \in Calls :
     (N >= 1 /\ LastFailed(c) /\ ~SignalsQuota(call[c].lastRaised))
     => call[c].pc = "thrown"

\* C15: the masked form logged at an issuance never contains the key.
C15_MaskNeverContainsKey ==
  \A k \in 1..Len(issued) : ~Includes(issued[k].masked, issued[k].key)

\* The pool that the configuration value s stands for: between two
\* neighbouring boundaries (the start, a comma, the end) lies one part; a
\* part with a character that is no white space is an entry, from its first
\* to its last such character; the entries in the order of the parts.
PartBounds(s) == {0, Len(s) + 1} \cup {k \in 1..Len(s) : s[k] = ","}

PartEntry(s, a) ==
  LET bounds == PartBounds(s)
      b == CHOOSE m \in bounds : m > a /\ \A x \in bounds : x > a => m <= x
      solid == {k \in (a + 1)..(b - 1) : s[k] \notin WhiteSpace}
  IN  IF solid = {} THEN <<>>
      ELSE LET lo == CHOOSE k \in solid : \A m \in solid : k <= m
               hi == CHOOSE k \in solid : \A m \in solid : k >= m
           IN  SubSeq(s, lo, hi)

RECURSIVE EntriesFrom(_, _)
EntriesFrom(s, a) ==
  IF a > Len(s) THEN <<>>
  ELSE LET later == {m \in PartBounds(s) : m > a}
           b == CHOOSE m \in later : \A x \in later : m <= x
           e == PartEntry(s, a)
       IN  (IF e = <<>> THEN <<>> ELSE <<e>>) \o EntriesFrom(s, b)

ExpectedPool == EntriesFrom(KeysRaw, 0)

\* C16: for every configuration value the pool of getNextApiKey is the
\* ordered sequence of its comma-separated parts, trimmed, without the empty
\* ones; the size logged at an issuance is the number of these entries; an
\* empty or absent value gives the empty pool and getNextApiKey does not raise.
C16_PoolIsTrimmedNonEmptyParts ==
  LET pool == PoolKeys
  IN  /\ pool = ExpectedPool
      /\ \A k \in 1..Len(issued) : issued[k].of = Len(ExpectedPool)
      /\ ~GetNextApiKey(keyIndex).threw
      /\ KeysRaw = <<>> => pool = <<>>

\* a key has been handed out of a value with an empty part and blanks
\* around its two entries
C16_Witness ==
  /\ process_env = [API_KEY |-> <<" ", "A", ",", ",", "B">>]
  /\ Len(issued) = 2
  /\ issued[2].key = <<"B">>
  /\ issued[2].of = 2

\* C17: a step that hands out a key moves the cursor from the position of
\* that key to the next one modulo n, and no other step (an attempt that
\* succeeds, fails RATE_LIMITED or fails OTHER, a timer that fires into the
\* end of the loop) moves the cursor at all.
C17_CursorAdvancesPerIssuance ==
  [][LET n == N
         m == Len(issued)
     IN  /\ Len(issued') \in {m, m + 1}
         /\ Len(issued') = m + 1 =>
              /\ issued'[m + 1].pos = keyIndex
              /\ keyIndex' = (keyIndex + 1) % n
         /\ Len(issued') = m => keyIndex' = keyIndex]_vars

\* on a pool of three or more keys one call has returned after a
\* RATE_LIMITED failure, another has ended on an OTHER failure, and the
\* cursor stands at the number of keys handed out
C17_Witness ==
  /\ N >= 3
  /\ keyIndex = Len(issued)
  /\ \E c, d \in Calls :
       /\ call[c].pc = "returned"
       /\ call[c].classes = <<"RATE_LIMITED", "OK">>
       /\ call[d].pc = "thrown"
       /\ call[d].classes = <<"OTHER">>

\* C18: no step (a call that starts, a key handed out, an attempt that
\* succeeds or fails, a timer that fires) changes process.env.API_KEY, from
\* which getNextApiKey reads the pool and executeWithRetry counts the keys
\* anew at every call: contents and order of the pool stay what they were,
\* and of the shared state only the cursor is left to change.
C18_PoolNeverChanges ==
  [][process_env' = process_env]_vars

\* keys have been handed out past the end of a pool of two or more keys,
\* one call waits in a backoff and another has ended
C18_Witness ==
  /\ N >= 2
  /\ Len(issued) > N
  /\ \E c, d \in Calls :
       /\ call[c].pc = "backoff"
       /\ Finished(d)

Suspended(c) == call[c].pc \in {"op", "opDirect", "backoff"}

\* C19: when every invoked operation completes and every backoff timer
\* fires, every call of executeWithRetry that has started returns or throws,
\* on pools larger than the ceiling of 5 as on the others.
C19_EveryCallCompletes ==
  \A c \in Calls : Suspended(c) ~> Finished(c)

\* on a pool of more than 5 keys a call has ended after five attempts and
\* five waits
C19_Witness ==
  \E c \in Calls :
     /\ N > 5
     /\ Finished(c)
     /\ Invocations(c) = 5
     /\ call[c].waits = 5

\* Call c is started as the manual retry of call d: d has thrown, the pool
\* holds at least two distinct keys, and no other call has run.
RetryOf(c, d) ==
  /\ c # d
  /\ call[d].pc = "thrown"
  /\ call[c].pc = "idle"
  /\ call'[c].pc # "idle"
  /\ \A e \in Calls \ {c, d} : call[e].pc = "idle"
  /\ LET pool == PoolKeys
     IN  Len(pool) >= 2 /\ PairwiseDistinct(pool)

\* C20 (as stated): with at least two distinct keys and no other call in
\* between, the first key issued to the manual retry of a failed call
\* differs from the first key that was issued to the failed call.
C20_RetryStartsOnOtherKey ==
  [][\A c, d \in Calls :
        RetryOf(c, d) => call'[c].keysUsed[1] # call[d].keysUsed[1]]_vars

\* C20 (amended): the retry starts where the failed call left the cursor:
\* after m attempts from position p its first key is the key at position
\* (p + m) % n, which differs from the failed call's first key exactly when
\* the failed call made fewer than n attempts.
C20_RetryStartsWhereFailedCallStopped ==
  [][\A c, d \in Calls :
        RetryOf(c, d) =>
          LET pool == PoolKeys
              n == Len(pool)
              m == Invocations(d)
              p == issued[1].pos
          IN  /\ Len(issued) = m
              /\ issued' = Append(issued, issued'[m + 1])
              /\ issued'[m + 1].pos = (p + m) % n
              /\ call'[c].keysUsed[1] = pool[((p + m) % n) + 1]
              /\ (call'[c].keysUsed[1] # call[d].keysUsed[1]) <=> (m < n)]_vars

\* a call failed on its second attempt with a failure that is not retried,
\* and its retry has been started on the third key
C20_Witness ==
  \E c, d \in Calls :
     /\ c # d
     /\ N >= 3
     /\ call[d].pc = "thrown"
     /\ call[d].classes = <<"RATE_LIMITED", "OTHER">>
     /\ call[c].pc = "op"
     /\ Len(issued) = 3
     /\ issued[3].pos = 2
     /\ call[c].keysUsed = <<issued[3].key>>
     /\ call[c].keysUsed[1] # call[d].keysUsed[1]

\* C28: for every configuration value the keys executeWithRetry counts for
\* its budget are as many as the keys getNextApiKey rotates over, so
\* maxRetries never exceeds the number of keys that can be issued, and the
\* single attempt without a key is made exactly when getNextApiKey has no
\* key to return.
C28_BudgetCountsRotationPool ==
  LET pool == PoolKeys
      keys == RetryKeys
  IN  /\ Len(keys) = Len(pool)
      /\ \A c \in Calls :
           call[c].pc # "idle" =>
             /\ call[c].maxRetries <= Len(pool)
             /\ call[c].maxRetries = MaxRetries(pool)
             /\ (call[c].keysUsed[1] = <<>>) <=> (GetNextApiKey(keyIndex).key = <<>>)
             /\ (call[c].keysUsed[1] = <<>>) <=> (call[c].maxRetries = 0)

\* a value with blanks around a key and a part of blanks only: two parts
\* that are truthy before trimming, one key, and a call that ended after
\* its single attempt
C28_Witness ==
  /\ process_env = [API_KEY |-> <<" ", "A", " ", ",", " ">>]
  /\ Len(RetryKeys) = 1
  /\ Len(RetryKeysNoTrim) = 2
  /\ Finished(1)
  /\ Invocations(1) = 1
  /\ Len(issued) = 1

\* call c is the call that ran last: it is suspended, or no other call has
\* been made
RanLast(c) == InFlight(c) \/ \A e \in Calls \ {c} : call[e].pc = "idle"

\* C22: a call that no other call interleaves with and that starts at cursor
\* position s passes pool[(s + i) % n] to its i-th invocation (i = 0, 1, ...)
\* and waits exactly once between two consecutive invocations; on the pool
\* A, B, C from cursor 0, with A and B failing RATE_LIMITED and C succeeding,
\* the keys are A, B, C, there are two waits and the call returns the value
\* of the third invocation.
C22_SoloCallTakesKeysInRotation ==
  LET pool == PoolKeys
      n == Len(pool)
  IN  \A c \in Calls :
         (n >= 1 /\ call[c].pc # "idle" /\ RanLast(c)) =>
           LET m == Invocations(c)
               k == Len(issued) - m
               s == issued[k + 1].pos
           IN  /\ \A i \in 0..(m - 1) :
                    /\ issued[k + 1 + i].pos = (s + i) % n
                    /\ call[c].keysUsed[i + 1] = pool[((s + i) % n) + 1]
               /\ call[c].pc = "op" => call[c].waits = m - 1
               /\ call[c].pc = "returned" => call[c].waits = m - 1
               /\ call[c].waits >= m - 1
               /\ ( /\ pool = << <<"A">>, <<"B">>, <<"C">> >>
                    /\ s = 0
                    /\ call[c].classes = <<"RATE_LIMITED", "RATE_LIMITED", "OK">> )
                  => /\ call[c].keysUsed = pool
                     /\ call[c].waits = 2
                     /\ call[c].result = [kind |-> "value", v |-> [js |-> "value", at |-> 3]]

\* the scenario of the pool A, B, C has been run from cursor 0
C22_Witness ==
  \E c \in Calls :
     /\ PoolKeys = << <<"A">>, <<"B">>, <<"C">> >>
     /\ Len(issued) = 3
     /\ call[c].pc = "returned"
     /\ call[c].classes = <<"RATE_LIMITED", "RATE_LIMITED", "OK">>
     /\ call[c].keysUsed = << <<"A">>, <<"B">>, <<"C">> >>

\* C23: when the j-th invocation of a call fails with a failure classified
\* OTHER after j-1 failures classified RATE_LIMITED, that step ends the call:
\* no key is handed out, the cursor stays, no wait is added to the j-1 waits
\* made before, the caller receives the value raised by the j-th invocation,
\* and an ended call takes no further step.
C23_OtherAfterRateLimitsAborts ==
  [][\A c \in Calls :
        /\ ( /\ Len(call'[c].classes) = Len(call[c].classes) + 1
             /\ call'[c].classes[Len(call'[c].classes)] = "OTHER"
             /\ call[c].pc = "op" )
           => LET j == Len(call'[c].classes)
              IN  /\ AllRateLimited(call[c].classes)
                  /\ j <= Budget
                  /\ call'[c].pc = "thrown"
                  /\ issued' = issued
                  /\ keyIndex' = keyIndex
                  /\ call'[c].keysUsed = call[c].keysUsed
                  /\ Len(call'[c].keysUsed) = j
                  /\ call'[c].waits = j - 1
                  /\ call[c].waits = j - 1
                  /\ call'[c].result = [kind |-> "error", v |-> call'[c].lastRaised]
                  /\ call'[c].lastRaised.at = j
                  /\ call'[c].result.v # call[c].lastError
        /\ call[c].pc = "thrown" => call'[c] = call[c]]_vars

\* a call has ended on an OTHER failure of its third invocation, after two
\* waits, and the other call has taken a key since
C23_Witness ==
  \E c, d \in Calls :
     /\ call[c].pc = "thrown"
     /\ call[c].classes = <<"RATE_LIMITED", "RATE_LIMITED", "OTHER">>
     /\ call[c].waits = 2
     /\ call[c].result.v.at = 3
     /\ c # d
     /\ InFlight(d)

\* C24: a call whose operation never completes does not keep the other
\* calls from completing: every other call that has started, before or
\* after it, returns or throws, and a key held by the hung call is handed out
\* to the others like any other key.
C24_OthersCompleteBesideHungCall ==
  \A c \in Calls \ {HungCall} : Suspended(c) ~> Finished(c)

\* the hung call is still in its first invocation; the other call, started
\* after it, has been round the pool, has used the key the hung call holds
\* and has ended
C24_Witness ==
  \E c \in Calls \ {HungCall} :
     /\ N >= 2
     /\ call[HungCall].pc = "op"
     /\ Invocations(HungCall) = 1
     /\ call[HungCall].apiKey = PoolKeys[1]
     /\ Finished(c)
     /\ \E k \in 1..Invocations(c) : call[c].keysUsed[k] = call[HungCall].apiKey

\* C21: whichever feature made the call, an invocation that is answered
\* with an empty response.text fails with a failure classified OTHER: the
\* call throws what that invocation raised, makes no further invocation,
\* and has made exactly one when it was the first.
C21_EmptyResponseIsOtherFailure ==
  \A c \in Calls :
     request[c].emptyAt > 0 =>
       LET j == request[c].emptyAt
       IN  /\ call[c].pc = "thrown"
           /\ Invocations(c) = j
           /\ Len(call[c].classes) = j
           /\ (N >= 1 => call[c].classes[j] = "OTHER")
           /\ call[c].result = [kind |-> "error", v |-> call[c].lastRaised]

\* C25: at most one answer is accepted for a generated question: between
\* two questions being set, at most one call of handleAnswer changes score,
\* totalXP, streak or health, the time in which nextRound has cleared the
\* selection and awaits the next question included.
C25_OneAnswerPerQuestion ==
  quiz.accepted <= 1

\* C27: in MathCam at most one analyzeFrame request is in flight at any
\* time, and when no analysis is running isAnalyzing is false again.
C27_OneAnalysisInFlight ==
  /\ Len(cam.inFlight) <= 1
  /\ cam.inFlight = <<>> => ~cam.hooks.isAnalyzing

\* C26: once deleteSession(id) has run, the history holds no item with that
\* id and local storage holds no exam_data, notebook_data, prof_data or
\* solver_data entry for it, whatever completes afterwards.
C26_DeletedSessionStaysGone ==
  \A id \in app.deleted :
     /\ \A k \in 1..Len(app.historyItems) : app.historyItems[k] # id
     /\ \A kind \in StorageKinds : StorageKey(kind, id) \notin app.localStorage

====
